---- MODULE Spec2Model ----
(***************************************************************************)
(* Model of the asar-snes wrapper (src/src/lib.rs) built with the          *)
(* `thread-safe` feature: the global reentrant lock, the raw `patching`    *)
(* functions, the unlocked top-level functions and the Patcher /           *)
(* ApplyResult protocol with its APPLYRESULT_ONCE_ALIVE gate.              *)
(*                                                                         *)
(* The assembler engine is opaque: its global tables (errors, warnings,    *)
(* labels, defines, ...) are one register, `engine`, holding the identity  *)
(* of the patch call that filled it, or EngineEmpty after a reset.         *)
(*                                                                         *)
(* Spec is the concurrent view: threads calling the wrapper's functions.   *)
(* SpecCall is the view of one patch / patch_ex / apply call, statement by *)
(* statement: the c_int conversions of the ROM sizes, the foreign buffers  *)
(* made by into_raw() and the RomData handed back.                         *)
(* SpecLive is Spec with fairness, for progress.  SpecOptions and          *)
(* SpecPatcher are the views of the AdvancedPatchOptions builder and of    *)
(* Patcher values.  SpecSingle is the build without `thread-safe`          *)
(* (FakeLock) on one thread.                                               *)
(***************************************************************************)
EXTENDS Integers, Sequences, FiniteSets, TLC

\* ------------------------------------------------------------------ bounds
\* bits of a c_int in the model (32 in the build)
CIntBits == 3
\* most options of one kind (defines, include paths, warning settings,
\* memory files) in one AdvancedPatchOptions
MaxOptions == 2
\* most PatchOptions given to one AdvancedPatchOptions builder
MaxList == 3
\* most PatchOptions one Patcher stands for
MaxSet == 2
\* the strings a PatchOption may carry
MaxNames == 2
\* with_asar_lock scopes a caller may have open at once
MaxDepth == 1
\* cap on the ApplyResult values one thread may hold (the gate keeps it at 1)
MaxAlive == 2

\* the threads of the process: two, each free to call any function at any time
Threads == {1, 2}
NoThread == 0

VARIABLES
    APPLYRESULT_ONCE_ALIVE, \* the apply-gate (static AtomicBool)
    lock,                   \* the global ReentrantMutex: owner and hold count
    engine,                 \* the engine's last-operation state
    pc,                     \* pc[t]: where thread t is inside a wrapper call
    arg,                    \* arg[t]: the call thread t is executing
    depth,                  \* depth[t]: with_asar_lock scopes t has open
    ars,                    \* ars[t]: the ApplyResult values t owns (alive)
    ret,                    \* ret[t]: what t's last call returned, until t's next call
    patched,                \* history: t patched inside the with_asar_lock scope it has open
    lastGateOp,             \* history: the last apply / romdata / drop process-wide
    io,                     \* one patch call seen step by step: arguments and locals
    foreign,                \* foreign buffers made by into_raw() and not yet released
    out,                    \* what that call handed back to its caller
    builder,                \* an AdvancedPatchOptions value under construction
    given,                  \* history: the PatchOptions given to it since new()
    patchers,               \* the Patcher values of a caller, by slot
    applied                 \* the options the last step's apply handed to patch_ex_basic

vars == <<APPLYRESULT_ONCE_ALIVE, lock, engine, pc, arg, depth, ars, ret, patched, lastGateOp>>
\* the variables of the step-by-step view of one call
callvars == <<io, foreign, out>>
\* the variables of the view of the option builders
buildvars == <<builder, given, patchers, applied>>

\* ------------------------------------------------------------ engine state
EngineEmpty == [by |-> NoThread, ok |-> FALSE]
EngineAfterPatch(t, ok) == [by |-> t, ok |-> ok]
\* the engine's error list is not empty: a failed patch left it
HasErrors(e) == e.by # NoThread /\ ~e.ok

\* ------------------------------------------------------------- global lock
global_asar_lock == [owner |-> NoThread, count |-> 0]
\* mutant: lock() never waits, as FakeLock does
CanLock_never_waits(t) == TRUE
\* mutant: a plain, non-reentrant mutex
CanLock_not_reentrant(t) == lock.owner = NoThread
CanLock(t) == lock.owner \in {NoThread, t}
Acquire(l, t) == [owner |-> t, count |-> l.count + 1]
Release(l) == [owner |-> IF l.count = 1 THEN NoThread ELSE l.owner, count |-> l.count - 1]

NoArg == [op |-> "none", ok |-> FALSE, after |-> "none"]
Call(op) == [op |-> op, ok |-> FALSE, after |-> "none"]
NoRet == [op |-> "none", res |-> "none", val |-> EngineEmpty, after |-> "none"]
Returned(op, res, val) == [op |-> op, res |-> res, val |-> val, after |-> "none"]
\* an ApplyResult: the success flag and, as history, the engine state its apply
\* left, the gate operation that preceded its apply, and whether its owner has
\* since made a raw patch / patch_ex / reset call
ApplyResult(ok, st, after) == [success |-> ok, state |-> st, after |-> after, raw |-> FALSE]
\* thread t's raw patching call has changed the engine under its ApplyResult
MarkRaw(t) == [ars EXCEPT ![t] = [i \in 1..Len(ars[t]) |-> [ars[t][i] EXCEPT !.raw = TRUE]]]

\* ------------------------------------------------------ program positions
LockPcs == {"wl_lock", "reset_lock", "query_lock", "patch_lock", "pex_lock", "peb_lock", "apply_lock"}
PatchingEnginePcs == {"reset_engine", "query_engine", "patch_engine", "patch_read", "peb_engine", "pex_read"}
TopLevelEnginePcs == {"top_engine"}
InPatchingEngine(t) == pc[t] \in PatchingEnginePcs
InEngine(t) == pc[t] \in PatchingEnginePcs \cup TopLevelEnginePcs

AnyAlive == \E u \in Threads : Len(ars[u]) > 0
AliveSet == {a \in Threads \X (1..MaxAlive) : a[2] <= Len(ars[a[1]])}
AliveCount == Cardinality(AliveSet)
\* ------------------------------------------- one call, step by step: values
\* c_int and usize, scaled down: c_int has CIntBits bits, usize twice as many
CInt == -(2^(CIntBits - 1))..(2^(CIntBits - 1) - 1)
MaxCInt == 2^(CIntBits - 1) - 1
UsizeBits == 2 * CIntBits
\* `n as c_int` of a usize n: the low bits, read as a signed number
ToCInt(n) ==
    LET low == n % (2^CIntBits)
    IN  IF low > MaxCInt THEN low - 2^CIntBits ELSE low
\* `i as usize` of a c_int i: sign-extended
ToUsize(i) == (i + 2^UsizeBits) % (2^UsizeBits)

\* a RomData: the size of its data vector and its length field
RomData(cap, length) == [cap |-> cap, length |-> length]
\* mutant: the engine is told the ROM length instead of the buffer size
BufLen_of_length(rom) == ToCInt(rom.length)
\* let buflen = rom.data.len() as c_int
BufLen(rom) == ToCInt(rom.cap)
\* sizes a caller may give: around zero and around the largest c_int
Sizes == {0, 1, MaxCInt, MaxCInt + 1, 2^CIntBits + 1}
OptionCounts == 0..MaxOptions
\* how many of stdincludesfile / stddefinesfile an AdvancedPatchOptions may set
StdFileCounts == {0, 1, 2}
AdvancedPatchOptions(d, i, w, m, s) ==
    [defines |-> d, includepaths |-> i, warning_settings |-> w, memory_files |-> m, stdfiles |-> s]
NoOptions == AdvancedPatchOptions(0, 0, 0, 0, 0)
\* the standard-file pointers of the parameter block: how many are not null,
\* and how many of the CStrings they point into are still allocated
NoStd == [ptr |-> 0, alloc |-> 0]
\* let stdincludesfile = options.stdincludesfile.map(|s| CString::new(s).unwrap());
\* ... stdincludesfile: stdincludesfile.map_or(ptr::null(), |s| s.as_ptr()),
\* (and the same for stddefinesfile): map_or takes the Option by value, the
\* closure owns the CString and drops it on return, after as_ptr()
StdFileParams(n) == [ptr |-> n, alloc |-> 0]
\* what the engine finds behind the standard-file pointers: nothing to read,
\* the path, or, reading a released buffer, the path, other bytes or a fault
EngineReads(std) ==
    IF std.ptr = 0 THEN {"none"}
    ELSE IF std.alloc >= std.ptr THEN {"path"}
    ELSE {"path", "garbage", "fault"}
NoForeign == [name |-> 0, contents |-> 0, includepath |-> 0, warnid |-> 0, path |-> 0]
NoCall ==
    [fn |-> "none", at |-> "none", supplied |-> RomData(0, 0), rom |-> RomData(0, 0),
     options |-> NoOptions, buflen |-> 0, romsize |-> 0, result |-> FALSE,
     std |-> NoStd, stdread |-> "none"]
NewCall(fn, rom, options) ==
    [fn |-> fn, at |-> "start", supplied |-> rom, rom |-> rom,
     options |-> options, buflen |-> 0, romsize |-> 0, result |-> FALSE,
     std |-> NoStd, stdread |-> "none"]
NoOut == [kind |-> "none", success |-> FALSE, rom |-> RomData(0, 0)]
Out(kind, success, rom) == [kind |-> kind, success |-> success, rom |-> rom]

\* what asar_patch / asar_patch_ex may answer: on success a length that fits
\* the buffer it was given, on failure any value in the in/out length
AsarPatchOutcomes(buflen) ==
    {[ok |-> TRUE, romsize |-> n] : n \in {k \in CInt : 0 <= k /\ k <= buflen}}
        \cup {[ok |-> FALSE, romsize |-> n] : n \in CInt}

\* ------------------------------------------------ option builders: values
\* a PatchOption: its variant, the string it carries (a name; 0 if none) and
\* the bool it carries (FALSE if none)
PatchOption(kind, name, flag) == [kind |-> kind, name |-> name, flag |-> flag]
Names == 1..MaxNames
PatchOptions ==
    {PatchOption(k, n, FALSE) :
        k \in {"Include", "Define", "MemoryFile", "StdIncludesFile", "StdDefinesFile"},
        n \in Names}
    \cup {PatchOption("Warning", 1, b) : b \in BOOLEAN}
    \cup {PatchOption(k, 0, b) :
            k \in {"OverrideChecksumGen", "GenerateChecksum", "ShouldReset"}, b \in BOOLEAN}
\* the Vec<PatchOption> values of at most n elements, all of them in S
RECURSIVE Lists(_, _)
Lists(S, n) ==
    IF n = 0 THEN {<<>>}
    ELSE LET shorter == Lists(S, n - 1)
         IN  shorter \cup {Append(l, o) : l \in {k \in shorter : Len(k) = n - 1}, o \in S}

\* Option<String>: None is 0, Some(name) is the name
None == 0
\* AdvancedPatchOptions::new()
AdvancedPatchOptions_new ==
    [includepaths |-> <<>>, should_reset |-> TRUE, additional_defines |-> <<>>,
     stdincludesfile |-> None, stddefinesfile |-> None, warning_settings |-> <<>>,
     memory_files |-> <<>>, override_checksum_gen |-> FALSE, generate_checksum |-> FALSE]
\* mutant: Include inserts its path in front
AdvancedPatchOptions_option_prepends(self, option) ==
    CASE option.kind = "Include" -> [self EXCEPT !.includepaths = <<option.name>> \o @]
      [] option.kind = "Define" -> [self EXCEPT !.additional_defines = Append(@, option.name)]
      [] option.kind = "Warning" ->
            [self EXCEPT !.warning_settings =
                            Append(@, [warnid |-> option.name, enabled |-> option.flag])]
      [] option.kind = "MemoryFile" -> [self EXCEPT !.memory_files = Append(@, option.name)]
      [] option.kind = "StdIncludesFile" -> [self EXCEPT !.stdincludesfile = option.name]
      [] option.kind = "StdDefinesFile" -> [self EXCEPT !.stddefinesfile = option.name]
      [] option.kind = "OverrideChecksumGen" -> [self EXCEPT !.override_checksum_gen = option.flag]
      [] option.kind = "GenerateChecksum" -> [self EXCEPT !.generate_checksum = option.flag]
      [] option.kind = "ShouldReset" -> [self EXCEPT !.should_reset = option.flag]
\* AdvancedPatchOptions::option(self, option)
AdvancedPatchOptions_option(self, option) ==
    CASE option.kind = "Include" -> [self EXCEPT !.includepaths = Append(@, option.name)]
      [] option.kind = "Define" -> [self EXCEPT !.additional_defines = Append(@, option.name)]
      [] option.kind = "Warning" ->
            [self EXCEPT !.warning_settings =
                            Append(@, [warnid |-> option.name, enabled |-> option.flag])]
      [] option.kind = "MemoryFile" -> [self EXCEPT !.memory_files = Append(@, option.name)]
      [] option.kind = "StdIncludesFile" -> [self EXCEPT !.stdincludesfile = option.name]
      [] option.kind = "StdDefinesFile" -> [self EXCEPT !.stddefinesfile = option.name]
      [] option.kind = "OverrideChecksumGen" -> [self EXCEPT !.override_checksum_gen = option.flag]
      [] option.kind = "GenerateChecksum" -> [self EXCEPT !.generate_checksum = option.flag]
      [] option.kind = "ShouldReset" -> [self EXCEPT !.should_reset = option.flag]
\* AdvancedPatchOptions::options(self, options): for option in options { self = self.option(option) }
RECURSIVE AdvancedPatchOptions_options(_, _)
AdvancedPatchOptions_options(self, options) ==
    IF options = <<>> THEN self
    ELSE AdvancedPatchOptions_options(AdvancedPatchOptions_option(self, Head(options)), Tail(options))
\* AdvancedPatchOptions::from(options)
AdvancedPatchOptions_from(options) == AdvancedPatchOptions_options(AdvancedPatchOptions_new, options)

\* Option<AdvancedPatchOptions>; Unset fills the value of a None
Unset ==
    [includepaths |-> <<>>, should_reset |-> FALSE, additional_defines |-> <<>>,
     stdincludesfile |-> None, stddefinesfile |-> None, warning_settings |-> <<>>,
     memory_files |-> <<>>, override_checksum_gen |-> FALSE, generate_checksum |-> FALSE]
NoneOptions == [some |-> FALSE, value |-> Unset]
Some(v) == [some |-> TRUE, value |-> v]
\* Option::unwrap_or_default with Default for AdvancedPatchOptions = new()
unwrap_or_default(o) == IF o.some THEN o.value ELSE AdvancedPatchOptions_new

\* the Patcher variables a caller has: the original and a clone
Slots == {1, 2}
\* a Patcher: its options field and, as history, the PatchOptions it stands for
Patcher(options, set) == [exists |-> TRUE, options |-> options, set |-> set]
\* a slot with no Patcher in it (not made yet, or moved into apply)
NoPatcher == [exists |-> FALSE, options |-> NoneOptions, set |-> <<>>]
NoApplied == [by |-> 0, options |-> Unset, set |-> <<>>]

ApplyInProgress(u) == arg[u].op = "apply" /\ pc[u] \in {"apply_lock", "peb_lock", "peb_engine"}

Init ==
    /\ APPLYRESULT_ONCE_ALIVE = FALSE
    /\ lock = global_asar_lock
    /\ engine = EngineEmpty
    /\ pc = [t \in Threads |-> "idle"]
    /\ arg = [t \in Threads |-> NoArg]
    /\ depth = [t \in Threads |-> 0]
    /\ ars = [t \in Threads |-> <<>>]
    /\ ret = [t \in Threads |-> NoRet]
    /\ patched = [t \in Threads |-> FALSE]
    /\ lastGateOp = "none"
    /\ io = NoCall
    /\ foreign = NoForeign
    /\ out = NoOut
    /\ builder = AdvancedPatchOptions_new
    /\ given = <<>>
    /\ patchers = [s \in Slots |-> NoPatcher]
    /\ applied = NoApplied

\* history: the call thread t has just returned from, as far as a query that
\* follows it is concerned
PrevOp(t) ==
    IF ret[t].op = "reset" THEN "reset"
    ELSE IF ret[t].res \in {"Success", "Failure"} THEN "patch"
    ELSE "none"

\* thread t enters a wrapper function: its previous return value is gone
Enter(t, to, a) ==
    /\ pc[t] = "idle"
    /\ pc' = [pc EXCEPT ![t] = to]
    /\ arg' = [arg EXCEPT ![t] = a]
    /\ ret' = [ret EXCEPT ![t] = NoRet]

\* thread t returns from a wrapper function
Return(t, r) ==
    /\ pc' = [pc EXCEPT ![t] = "idle"]
    /\ arg' = [arg EXCEPT ![t] = NoArg]
    /\ ret' = [ret EXCEPT ![t] = r]

\* --------------------------------------------------------- with_asar_lock
\* the caller opens a with_asar_lock scope (or enters a #[use_asar_global_lock] fn)
with_asar_lock_call(t) ==
    /\ depth[t] < MaxDepth
    /\ Enter(t, "wl_lock", Call("with_asar_lock"))
    /\ UNCHANGED <<APPLYRESULT_ONCE_ALIVE, lock, engine, depth, ars, patched, lastGateOp>>
    /\ UNCHANGED <<callvars, buildvars>>

with_asar_lock_enter(t) ==
    /\ pc[t] = "wl_lock"
    /\ CanLock(t)
    /\ lock' = Acquire(lock, t)
    /\ depth' = [depth EXCEPT ![t] = @ + 1]
    /\ pc' = [pc EXCEPT ![t] = "idle"]
    /\ arg' = [arg EXCEPT ![t] = NoArg]
    /\ UNCHANGED <<APPLYRESULT_ONCE_ALIVE, engine, ars, ret, patched, lastGateOp>>
    /\ UNCHANGED <<callvars, buildvars>>

\* the closure ends and `_lock` is dropped
with_asar_lock_exit(t) ==
    /\ pc[t] = "idle"
    /\ depth[t] > 0
    /\ lock' = Release(lock)
    /\ depth' = [depth EXCEPT ![t] = @ - 1]
    /\ patched' = [patched EXCEPT ![t] = @ /\ depth'[t] > 0]
    /\ UNCHANGED <<APPLYRESULT_ONCE_ALIVE, engine, pc, arg, ars, ret, lastGateOp>>
    /\ UNCHANGED <<callvars, buildvars>>

\* ------------------------ top-level math / version / api_version / max_rom_size
\* no lock is taken: the engine function is called directly
toplevel_call(t) ==
    /\ Enter(t, "top_engine", Call("toplevel"))
    /\ UNCHANGED <<APPLYRESULT_ONCE_ALIVE, lock, engine, depth, ars, patched, lastGateOp>>
    /\ UNCHANGED <<callvars, buildvars>>

toplevel_return(t) ==
    /\ pc[t] = "top_engine"
    /\ Return(t, Returned("toplevel", "value", EngineEmpty))
    /\ UNCHANGED <<APPLYRESULT_ONCE_ALIVE, lock, engine, depth, ars, patched, lastGateOp>>
    /\ UNCHANGED <<callvars, buildvars>>

\* -------------------------------------------------------- patching::reset
reset_call(t) ==
    /\ Enter(t, "reset_lock", Call("reset"))
    /\ UNCHANGED <<APPLYRESULT_ONCE_ALIVE, lock, engine, depth, ars, patched, lastGateOp>>
    /\ UNCHANGED <<callvars, buildvars>>

\* reset takes the lock and enters asar_reset (also reached from romdata / drop)
reset_lock(t) ==
    /\ pc[t] = "reset_lock"
    /\ CanLock(t)
    /\ lock' = Acquire(lock, t)
    /\ pc' = [pc EXCEPT ![t] = "reset_engine"]
    /\ UNCHANGED <<APPLYRESULT_ONCE_ALIVE, engine, arg, depth, ars, ret, patched, lastGateOp>>
    /\ UNCHANGED <<callvars, buildvars>>

\* mutant: the reset leaves the engine's tables as they were
reset_return_keeps_state(t) ==
    /\ pc[t] = "reset_engine"
    /\ lock' = IF arg[t].op = "reset" THEN Release(lock) ELSE Release(Release(lock))
    /\ Return(t, Returned(arg[t].op, "done", EngineEmpty))
    /\ patched' = [patched EXCEPT ![t] = FALSE]
    /\ ars' = IF arg[t].op = "reset" THEN MarkRaw(t) ELSE ars
    /\ UNCHANGED <<APPLYRESULT_ONCE_ALIVE, engine, depth, lastGateOp>>
    /\ UNCHANGED <<callvars, buildvars>>

\* asar_reset returns; reset's lock is released; a disposal then drops the
\* ApplyResult's fields, `_guard` among them
reset_return(t) ==
    /\ pc[t] = "reset_engine"
    /\ engine' = EngineEmpty
    /\ lock' = IF arg[t].op = "reset" THEN Release(lock) ELSE Release(Release(lock))
    /\ Return(t, Returned(arg[t].op, "done", EngineEmpty))
    /\ patched' = [patched EXCEPT ![t] = FALSE]
    /\ ars' = IF arg[t].op = "reset" THEN MarkRaw(t) ELSE ars
    /\ UNCHANGED <<APPLYRESULT_ONCE_ALIVE, depth, lastGateOp>>
    /\ UNCHANGED <<callvars, buildvars>>

\* ----------------- patching::errors / warnings / labels / defines / ...
query_call(t) ==
    /\ Enter(t, "query_lock", [Call("query") EXCEPT !.after = PrevOp(t)])
    /\ UNCHANGED <<APPLYRESULT_ONCE_ALIVE, lock, engine, depth, ars, patched, lastGateOp>>
    /\ UNCHANGED <<callvars, buildvars>>

\* an ApplyResult accessor forwards to the patching query of the same name
accessor_call(t) ==
    /\ Len(ars[t]) > 0
    /\ Enter(t, "query_lock", Call("accessor"))
    /\ UNCHANGED <<APPLYRESULT_ONCE_ALIVE, lock, engine, depth, ars, patched, lastGateOp>>
    /\ UNCHANGED <<callvars, buildvars>>

query_lock(t) ==
    /\ pc[t] = "query_lock"
    /\ CanLock(t)
    /\ lock' = Acquire(lock, t)
    /\ pc' = [pc EXCEPT ![t] = "query_engine"]
    /\ UNCHANGED <<APPLYRESULT_ONCE_ALIVE, engine, arg, depth, ars, ret, patched, lastGateOp>>
    /\ UNCHANGED <<callvars, buildvars>>

\* mutant: a query answers from the calling thread's own last patch
query_return_own_state(t) ==
    /\ pc[t] = "query_engine"
    /\ lock' = Release(lock)
    /\ Return(t, [Returned(arg[t].op, "value", EngineAfterPatch(t, TRUE)) EXCEPT !.after = arg[t].after])
    /\ UNCHANGED <<APPLYRESULT_ONCE_ALIVE, engine, depth, ars, patched, lastGateOp>>
    /\ UNCHANGED <<callvars, buildvars>>

\* the asar_get* call returns and its result is copied into owned values
query_return(t) ==
    /\ pc[t] = "query_engine"
    /\ lock' = Release(lock)
    /\ Return(t, [Returned(arg[t].op, "value", engine) EXCEPT !.after = arg[t].after])
    /\ UNCHANGED <<APPLYRESULT_ONCE_ALIVE, engine, depth, ars, patched, lastGateOp>>
    /\ UNCHANGED <<callvars, buildvars>>

\* -------------------------------------------------------- patching::patch
patch_call(t) ==
    /\ Enter(t, "patch_lock", Call("patch"))
    /\ UNCHANGED <<APPLYRESULT_ONCE_ALIVE, lock, engine, depth, ars, patched, lastGateOp>>
    /\ UNCHANGED <<callvars, buildvars>>

\* mutant: patch without #[use_asar_global_lock]
patch_lock_not_taken(t) ==
    /\ pc[t] = "patch_lock"
    /\ \E bad \in BOOLEAN :
       IF bad
          THEN /\ Return(t, Returned("patch", "Panic", EngineEmpty))
          ELSE /\ pc' = [pc EXCEPT ![t] = "patch_engine"]
               /\ UNCHANGED <<arg, ret>>
    /\ UNCHANGED <<APPLYRESULT_ONCE_ALIVE, lock, engine, depth, ars, patched, lastGateOp>>
    /\ UNCHANGED <<callvars, buildvars>>

\* patch takes the lock and marshals the patch name. bad: the name holds an
\* embedded NUL and CString::new(..).unwrap() panics; the unwinding releases
\* the lock again. Otherwise asar_patch is entered
patch_lock(t) ==
    /\ pc[t] = "patch_lock"
    /\ CanLock(t)
    /\ \E bad \in BOOLEAN :
       IF bad
          THEN /\ Return(t, Returned("patch", "Panic", EngineEmpty))
               /\ UNCHANGED lock
          ELSE /\ pc' = [pc EXCEPT ![t] = "patch_engine"]
               /\ lock' = Acquire(lock, t)
               /\ UNCHANGED <<arg, ret>>
    /\ UNCHANGED <<APPLYRESULT_ONCE_ALIVE, engine, depth, ars, patched, lastGateOp>>
    /\ UNCHANGED <<callvars, buildvars>>

\* asar_patch returns success or failure; asar_getwarnings is entered
patch_engine(t) ==
    /\ pc[t] = "patch_engine"
    /\ \E ok \in BOOLEAN :
         /\ engine' = EngineAfterPatch(t, ok)
         /\ arg' = [arg EXCEPT ![t].ok = ok]
    /\ pc' = [pc EXCEPT ![t] = "patch_read"]
    /\ ars' = MarkRaw(t)
    /\ UNCHANGED <<APPLYRESULT_ONCE_ALIVE, lock, depth, ret, patched, lastGateOp>>
    /\ UNCHANGED <<callvars, buildvars>>

\* the diagnostics are copied out of the engine, the lock is released and the
\* PatchResult returned
patch_return(t) ==
    /\ pc[t] = "patch_read"
    /\ lock' = Release(lock)
    /\ Return(t, Returned("patch", IF arg[t].ok THEN "Success" ELSE "Failure", engine))
    /\ patched' = [patched EXCEPT ![t] = depth[t] > 0]
    /\ UNCHANGED <<APPLYRESULT_ONCE_ALIVE, engine, depth, ars, lastGateOp>>
    /\ UNCHANGED <<callvars, buildvars>>

\* ----------------------------------------------------- patching::patch_ex
patch_ex_call(t) ==
    /\ Enter(t, "pex_lock", Call("patch_ex"))
    /\ UNCHANGED <<APPLYRESULT_ONCE_ALIVE, lock, engine, depth, ars, patched, lastGateOp>>
    /\ UNCHANGED <<callvars, buildvars>>

\* mutant: patch_ex without #[use_asar_global_lock]
patch_ex_lock_not_taken(t) ==
    /\ pc[t] = "pex_lock"
    /\ pc' = [pc EXCEPT ![t] = "peb_lock"]
    /\ UNCHANGED <<APPLYRESULT_ONCE_ALIVE, lock, engine, arg, depth, ars, ret, patched, lastGateOp>>
    /\ UNCHANGED <<callvars, buildvars>>

patch_ex_lock(t) ==
    /\ pc[t] = "pex_lock"
    /\ CanLock(t)
    /\ lock' = Acquire(lock, t)
    /\ pc' = [pc EXCEPT ![t] = "peb_lock"]
    /\ UNCHANGED <<APPLYRESULT_ONCE_ALIVE, engine, arg, depth, ars, ret, patched, lastGateOp>>
    /\ UNCHANGED <<callvars, buildvars>>

\* patch_ex_basic (called by patch_ex and by Patcher::apply, each holding the
\* lock once already) takes the lock again and marshals its arguments. bad: a
\* string holds an embedded NUL and CString::new(..).unwrap() panics; the
\* unwinding goes through the caller and drops the caller's guard too
patch_ex_basic_lock(t) ==
    /\ pc[t] = "peb_lock"
    /\ CanLock(t)
    /\ \E bad \in BOOLEAN :
       IF bad
          THEN /\ Return(t, Returned(arg[t].op, "Panic", EngineEmpty))
               /\ lock' = Release(lock)
          ELSE /\ pc' = [pc EXCEPT ![t] = "peb_engine"]
               /\ lock' = Acquire(lock, t)
               /\ UNCHANGED <<arg, ret>>
    /\ UNCHANGED <<APPLYRESULT_ONCE_ALIVE, engine, depth, ars, patched, lastGateOp>>
    /\ UNCHANGED <<callvars, buildvars>>

\* mutant: the ApplyResult keeps no guard (the PhantomData variant), so apply
\* returns with its lock released
patch_ex_basic_return_no_guard(t) ==
    /\ pc[t] = "peb_engine"
    /\ \E ok \in BOOLEAN :
         /\ engine' = EngineAfterPatch(t, ok)
         /\ IF arg[t].op = "apply"
               THEN /\ ars' = [ars EXCEPT ![t] = Append(@, ApplyResult(ok, engine', arg[t].after))]
                    /\ Return(t, Returned("apply", "Ok", EngineEmpty))
                    /\ patched' = [patched EXCEPT ![t] = FALSE]
                    /\ lock' = Release(Release(lock))
               ELSE /\ pc' = [pc EXCEPT ![t] = "pex_read"]
                    /\ arg' = [arg EXCEPT ![t].ok = ok]
                    /\ ars' = MarkRaw(t)
                    /\ lock' = Release(lock)
                    /\ UNCHANGED <<ret, patched>>
    /\ UNCHANGED <<APPLYRESULT_ONCE_ALIVE, depth, lastGateOp>>
    /\ UNCHANGED <<callvars, buildvars>>

\* asar_patch_ex returns and patch_ex_basic releases its lock. In patch_ex
\* asar_getwarnings is entered next; in apply the ApplyResult is built around
\* the guard and returned
patch_ex_basic_return(t) ==
    /\ pc[t] = "peb_engine"
    /\ \E ok \in BOOLEAN :
         /\ engine' = EngineAfterPatch(t, ok)
         /\ IF arg[t].op = "apply"
               THEN /\ ars' = [ars EXCEPT ![t] = Append(@, ApplyResult(ok, engine', arg[t].after))]
                    /\ Return(t, Returned("apply", "Ok", EngineEmpty))
                    /\ patched' = [patched EXCEPT ![t] = FALSE]
               ELSE /\ pc' = [pc EXCEPT ![t] = "pex_read"]
                    /\ arg' = [arg EXCEPT ![t].ok = ok]
                    /\ ars' = MarkRaw(t)
                    /\ UNCHANGED <<ret, patched>>
    /\ lock' = Release(lock)
    /\ UNCHANGED <<APPLYRESULT_ONCE_ALIVE, depth, lastGateOp>>
    /\ UNCHANGED <<callvars, buildvars>>

patch_ex_return(t) ==
    /\ pc[t] = "pex_read"
    /\ lock' = Release(lock)
    /\ Return(t, Returned("patch_ex", IF arg[t].ok THEN "Success" ELSE "Failure", engine))
    /\ patched' = [patched EXCEPT ![t] = depth[t] > 0]
    /\ UNCHANGED <<APPLYRESULT_ONCE_ALIVE, engine, depth, ars, lastGateOp>>
    /\ UNCHANGED <<callvars, buildvars>>

\* -------------------------------------------------------- Patcher::apply
apply_call(t) ==
    /\ Len(ars[t]) < MaxAlive
    /\ Enter(t, "apply_cas", Call("apply"))
    /\ UNCHANGED <<APPLYRESULT_ONCE_ALIVE, lock, engine, depth, ars, patched, lastGateOp>>
    /\ UNCHANGED <<callvars, buildvars>>

\* mutant: the gate is set with a plain store and its old value ignored
apply_CAS_store(t) ==
    /\ pc[t] = "apply_cas"
    /\ APPLYRESULT_ONCE_ALIVE' = TRUE
    /\ pc' = [pc EXCEPT ![t] = "apply_lock"]
    /\ arg' = [arg EXCEPT ![t].after = lastGateOp]
    /\ lastGateOp' = "apply"
    /\ UNCHANGED <<lock, engine, depth, ars, ret, patched>>
    /\ UNCHANGED <<callvars, buildvars>>

\* mutant: the gate is read but never written, so it never closes
apply_CAS_load_only(t) ==
    /\ pc[t] = "apply_cas"
    /\ IF APPLYRESULT_ONCE_ALIVE
         THEN Return(t, Returned("apply", "Err", EngineEmpty))
         ELSE /\ pc' = [pc EXCEPT ![t] = "apply_lock"]
              /\ arg' = [arg EXCEPT ![t].after = lastGateOp]
              /\ UNCHANGED ret
    /\ lastGateOp' = "apply"
    /\ UNCHANGED <<APPLYRESULT_ONCE_ALIVE, lock, engine, depth, ars, patched>>
    /\ UNCHANGED <<callvars, buildvars>>

\* mutant: the rejecting branch clears the gate before returning the error
apply_CAS_err_clears(t) ==
    /\ pc[t] = "apply_cas"
    /\ IF APPLYRESULT_ONCE_ALIVE
         THEN /\ Return(t, Returned("apply", "Err", EngineEmpty))
              /\ APPLYRESULT_ONCE_ALIVE' = FALSE
         ELSE /\ APPLYRESULT_ONCE_ALIVE' = TRUE
              /\ pc' = [pc EXCEPT ![t] = "apply_lock"]
              /\ arg' = [arg EXCEPT ![t].after = lastGateOp]
              /\ UNCHANGED ret
    /\ lastGateOp' = "apply"
    /\ UNCHANGED <<lock, engine, depth, ars, patched>>
    /\ UNCHANGED <<callvars, buildvars>>

\* APPLYRESULT_ONCE_ALIVE.compare_exchange(false, true): on failure apply
\* returns Err(ConcurrentApplyError) at once
apply_CAS(t) ==
    /\ pc[t] = "apply_cas"
    /\ IF APPLYRESULT_ONCE_ALIVE
         THEN /\ Return(t, Returned("apply", "Err", EngineEmpty))
              /\ UNCHANGED APPLYRESULT_ONCE_ALIVE
         ELSE /\ APPLYRESULT_ONCE_ALIVE' = TRUE
              /\ pc' = [pc EXCEPT ![t] = "apply_lock"]
              /\ arg' = [arg EXCEPT ![t].after = lastGateOp]
              /\ UNCHANGED ret
    /\ lastGateOp' = "apply"
    /\ UNCHANGED <<lock, engine, depth, ars, patched>>
    /\ UNCHANGED <<callvars, buildvars>>

\* mutant: apply takes no guard of its own
apply_lock_not_taken(t) ==
    /\ pc[t] = "apply_lock"
    /\ pc' = [pc EXCEPT ![t] = "peb_lock"]
    /\ UNCHANGED <<APPLYRESULT_ONCE_ALIVE, lock, engine, arg, depth, ars, ret, patched, lastGateOp>>
    /\ UNCHANGED <<callvars, buildvars>>

\* let guard = global_asar_lock().lock(), then patch_ex_basic is called
apply_lock(t) ==
    /\ pc[t] = "apply_lock"
    /\ CanLock(t)
    /\ lock' = Acquire(lock, t)
    /\ pc' = [pc EXCEPT ![t] = "peb_lock"]
    /\ UNCHANGED <<APPLYRESULT_ONCE_ALIVE, engine, arg, depth, ars, ret, patched, lastGateOp>>
    /\ UNCHANGED <<callvars, buildvars>>

\* ----------------------------------------------- ApplyResult::romdata / Drop
RemoveAt(s, i) == [j \in 1..(Len(s) - 1) |-> IF j < i THEN s[j] ELSE s[j + 1]]

\* mutant: romdata forgets to store false into the gate
romdata_call_no_store(t) ==
    /\ \E i \in 1..Len(ars[t]) : ars' = [ars EXCEPT ![t] = RemoveAt(@, i)]
    /\ lastGateOp' = "romdata"
    /\ Enter(t, "reset_lock", Call("romdata"))
    /\ UNCHANGED <<APPLYRESULT_ONCE_ALIVE, lock, engine, depth, patched>>
    /\ UNCHANGED <<callvars, buildvars>>

\* romdata(self): the ROM data is taken, the gate is stored false, and self
\* goes out of scope, which runs Drop::drop and so patching::reset()
romdata_call(t) ==
    /\ \E i \in 1..Len(ars[t]) : ars' = [ars EXCEPT ![t] = RemoveAt(@, i)]
    /\ APPLYRESULT_ONCE_ALIVE' = FALSE
    /\ lastGateOp' = "romdata"
    /\ Enter(t, "reset_lock", Call("romdata"))
    /\ UNCHANGED <<lock, engine, depth, patched>>
    /\ UNCHANGED <<callvars, buildvars>>

\* an ApplyResult goes out of scope without romdata(): Drop::drop runs
\* patching::reset() and nothing else
drop_call(t) ==
    /\ \E i \in 1..Len(ars[t]) : ars' = [ars EXCEPT ![t] = RemoveAt(@, i)]
    /\ lastGateOp' = "drop"
    /\ Enter(t, "reset_lock", Call("drop"))
    /\ UNCHANGED <<APPLYRESULT_ONCE_ALIVE, lock, engine, depth, patched>>
    /\ UNCHANGED <<callvars, buildvars>>

\* ------------------------------------------------------------------- Next
Step(t) ==
    \/ with_asar_lock_call(t) \/ with_asar_lock_enter(t) \/ with_asar_lock_exit(t)
    \/ toplevel_call(t) \/ toplevel_return(t)
    \/ reset_call(t) \/ reset_lock(t) \/ reset_return(t)
    \/ query_call(t) \/ accessor_call(t) \/ query_lock(t) \/ query_return(t)
    \/ patch_call(t) \/ patch_lock(t) \/ patch_engine(t) \/ patch_return(t)
    \/ patch_ex_call(t) \/ patch_ex_lock(t) \/ patch_ex_basic_lock(t)
    \/ patch_ex_basic_return(t) \/ patch_ex_return(t)
    \/ apply_call(t) \/ apply_CAS(t) \/ apply_lock(t)
    \/ romdata_call(t) \/ drop_call(t)

Next == \E t \in Threads : Step(t)

Spec == Init /\ [][Next]_vars

\* a thread inside a wrapper function keeps running: a step that needs no
\* lock is taken in the end (weak fairness), and a thread waiting for the
\* global lock gets it in the end if the lock is free again and again
\* (parking_lot's mutexes are eventually fair)
Running(t) == pc[t] \notin LockPcs \cup {"idle"} /\ Step(t)
LockStep(t) == pc[t] \in LockPcs /\ Step(t)
\* mutant: an unfair lock, a waiting thread may be passed over for ever
Fairness_unfair_lock == \A t \in Threads : WF_vars(Running(t)) /\ WF_vars(LockStep(t))
Fairness == \A t \in Threads : WF_vars(Running(t)) /\ SF_vars(LockStep(t))
SpecLive == Init /\ [][Next]_vars /\ Fairness

\* ------------------------------------ the build without `thread-safe`
\* global_asar_lock() is &FakeLock and lock() returns a FakeLock at once:
\* nothing is taken and nothing is given back when the value is dropped
FakeLock_lock(l, t) == l
FakeLock_drop(l) == l
\* the one thread of a program built this way
MainThread == 1

\* with_asar_lock: let _lock = global_asar_lock().lock(); f()
FakeLock_with_asar_lock_enter(t) ==
    /\ pc[t] = "wl_lock"
    /\ lock' = FakeLock_lock(lock, t)
    /\ depth' = [depth EXCEPT ![t] = @ + 1]
    /\ pc' = [pc EXCEPT ![t] = "idle"]
    /\ arg' = [arg EXCEPT ![t] = NoArg]
    /\ UNCHANGED <<APPLYRESULT_ONCE_ALIVE, engine, ars, ret, patched, lastGateOp>>
    /\ UNCHANGED <<callvars, buildvars>>

\* the closure ends and `_lock` is dropped
FakeLock_with_asar_lock_exit(t) ==
    /\ pc[t] = "idle"
    /\ depth[t] > 0
    /\ lock' = FakeLock_drop(lock)
    /\ depth' = [depth EXCEPT ![t] = @ - 1]
    /\ patched' = [patched EXCEPT ![t] = @ /\ depth'[t] > 0]
    /\ UNCHANGED <<APPLYRESULT_ONCE_ALIVE, engine, pc, arg, ars, ret, lastGateOp>>
    /\ UNCHANGED <<callvars, buildvars>>

\* patching::reset (also reached from romdata / drop) enters asar_reset
FakeLock_reset_lock(t) ==
    /\ pc[t] = "reset_lock"
    /\ lock' = FakeLock_lock(lock, t)
    /\ pc' = [pc EXCEPT ![t] = "reset_engine"]
    /\ UNCHANGED <<APPLYRESULT_ONCE_ALIVE, engine, arg, depth, ars, ret, patched, lastGateOp>>
    /\ UNCHANGED <<callvars, buildvars>>

\* asar_reset returns; the ApplyResult being disposed of holds no guard
FakeLock_reset_return(t) ==
    /\ pc[t] = "reset_engine"
    /\ engine' = EngineEmpty
    /\ lock' = FakeLock_drop(lock)
    /\ Return(t, Returned(arg[t].op, "done", EngineEmpty))
    /\ patched' = [patched EXCEPT ![t] = FALSE]
    /\ ars' = IF arg[t].op = "reset" THEN MarkRaw(t) ELSE ars
    /\ UNCHANGED <<APPLYRESULT_ONCE_ALIVE, depth, lastGateOp>>
    /\ UNCHANGED <<callvars, buildvars>>

\* mutant: the gate is set with a plain store and its old value ignored
FakeLock_apply_CAS_store(t) ==
    /\ pc[t] = "apply_cas"
    /\ APPLYRESULT_ONCE_ALIVE' = TRUE
    /\ pc' = [pc EXCEPT ![t] = "peb_lock"]
    /\ arg' = [arg EXCEPT ![t].after = lastGateOp]
    /\ lastGateOp' = "apply"
    /\ UNCHANGED <<lock, engine, depth, ars, ret, patched>>
    /\ UNCHANGED <<callvars, buildvars>>

\* Patcher::apply without `thread-safe`: the compare_exchange, then straight
\* on to patch_ex_basic
FakeLock_apply_CAS(t) ==
    /\ pc[t] = "apply_cas"
    /\ IF APPLYRESULT_ONCE_ALIVE
         THEN /\ Return(t, Returned("apply", "Err", EngineEmpty))
              /\ UNCHANGED APPLYRESULT_ONCE_ALIVE
         ELSE /\ APPLYRESULT_ONCE_ALIVE' = TRUE
              /\ pc' = [pc EXCEPT ![t] = "peb_lock"]
              /\ arg' = [arg EXCEPT ![t].after = lastGateOp]
              /\ UNCHANGED ret
    /\ lastGateOp' = "apply"
    /\ UNCHANGED <<lock, engine, depth, ars, patched>>
    /\ UNCHANGED <<callvars, buildvars>>

\* patch_ex_basic marshals its arguments (a string with a NUL inside makes
\* CString::new(..).unwrap() panic) and calls asar_patch_ex
FakeLock_patch_ex_basic_lock(t) ==
    /\ pc[t] = "peb_lock"
    /\ lock' = FakeLock_lock(lock, t)
    /\ \E bad \in BOOLEAN :
       IF bad
          THEN Return(t, Returned(arg[t].op, "Panic", EngineEmpty))
          ELSE /\ pc' = [pc EXCEPT ![t] = "peb_engine"]
               /\ UNCHANGED <<arg, ret>>
    /\ UNCHANGED <<APPLYRESULT_ONCE_ALIVE, engine, depth, ars, patched, lastGateOp>>
    /\ UNCHANGED <<callvars, buildvars>>

\* asar_patch_ex returns and apply builds Ok(ApplyResult { .., _marker })
FakeLock_patch_ex_basic_return(t) ==
    /\ pc[t] = "peb_engine" /\ arg[t].op = "apply"
    /\ \E ok \in BOOLEAN :
         /\ engine' = EngineAfterPatch(t, ok)
         /\ ars' = [ars EXCEPT ![t] = Append(@, ApplyResult(ok, engine', arg[t].after))]
    /\ Return(t, Returned("apply", "Ok", EngineEmpty))
    /\ patched' = [patched EXCEPT ![t] = FALSE]
    /\ lock' = FakeLock_drop(lock)
    /\ UNCHANGED <<APPLYRESULT_ONCE_ALIVE, depth, lastGateOp>>
    /\ UNCHANGED <<callvars, buildvars>>

FakeLock_Step(t) ==
    \/ with_asar_lock_call(t)
    \/ FakeLock_with_asar_lock_enter(t)
    \/ FakeLock_with_asar_lock_exit(t)
    \/ apply_call(t)
    \/ FakeLock_apply_CAS(t)
    \/ FakeLock_patch_ex_basic_lock(t)
    \/ FakeLock_patch_ex_basic_return(t)
    \/ romdata_call(t)
    \/ drop_call(t)
    \/ reset_call(t)
    \/ FakeLock_reset_lock(t)
    \/ FakeLock_reset_return(t)

NextSingle == \E t \in {MainThread} : FakeLock_Step(t)

SpecSingle == Init /\ [][NextSingle]_<<vars, callvars, buildvars>>

\* ------------------------------------------ one call, step by step: actions
\* patching::patch, up to the engine call
patch_marshal ==
    /\ io.fn = "patch" /\ io.at = "start"
    /\ io' = [io EXCEPT !.buflen = BufLen(io.rom), !.romsize = ToCInt(io.rom.length),
                         !.at = "engine"]
    /\ UNCHANGED <<foreign, out>>
    /\ UNCHANGED <<vars, buildvars>>

\* asar_patch writes the in/out length and returns
asar_patch ==
    /\ io.fn = "patch" /\ io.at = "engine"
    /\ \E o \in AsarPatchOutcomes(io.buflen) :
         io' = [io EXCEPT !.result = o.ok, !.romsize = o.romsize, !.at = "finish"]
    /\ UNCHANGED <<foreign, out>>
    /\ UNCHANGED <<vars, buildvars>>

\* mutant: Success hands back the RomData with the length it came with
patch_finish_keeps_length ==
    /\ io.fn = "patch" /\ io.at = "finish"
    /\ io' = [io EXCEPT !.at = "returned"]
    /\ out' = IF io.result THEN Out("Success", TRUE, io.rom)
                           ELSE Out("Failure", FALSE, RomData(0, 0))
    /\ UNCHANGED foreign
    /\ UNCHANGED <<vars, buildvars>>

\* if result { options.romdata.length = romsize as usize; Success } else { Failure }
patch_finish ==
    /\ io.fn = "patch" /\ io.at = "finish"
    /\ IF io.result
          THEN /\ io' = [io EXCEPT !.rom.length = ToUsize(io.romsize), !.at = "returned"]
               /\ out' = Out("Success", TRUE, io'.rom)
          ELSE /\ io' = [io EXCEPT !.at = "returned"]
               /\ out' = Out("Failure", FALSE, RomData(0, 0))
    /\ UNCHANGED foreign
    /\ UNCHANGED <<vars, buildvars>>

\* patch_ex_basic, up to the engine call: Define::as_raw, WarnSetting::as_raw,
\* MemoryFile::as_raw and the include paths each hand a CString to into_raw();
\* the parameter block gets the pointers of the standard-file paths
patch_ex_basic_marshal ==
    /\ io.fn \in {"patch_ex", "apply"} /\ io.at = "start"
    /\ io' = [io EXCEPT !.buflen = BufLen(io.rom), !.romsize = ToCInt(io.rom.length),
                         !.std = StdFileParams(io.options.stdfiles),
                         !.at = "engine"]
    /\ foreign' = [name |-> foreign.name + io.options.defines,
                   contents |-> foreign.contents + io.options.defines,
                   includepath |-> foreign.includepath + io.options.includepaths,
                   warnid |-> foreign.warnid + io.options.warning_settings,
                   path |-> foreign.path + io.options.memory_files]
    /\ UNCHANGED out
    /\ UNCHANGED <<vars, buildvars>>

\* asar_patch_ex reads the parameter block, writes the in/out length and
\* returns; a read of a released buffer may also end the process
asar_patch_ex ==
    /\ io.fn \in {"patch_ex", "apply"} /\ io.at = "engine"
    /\ \E read \in EngineReads(io.std) :
         IF read = "fault"
            THEN io' = [io EXCEPT !.stdread = read, !.at = "crashed"]
            ELSE \E o \in AsarPatchOutcomes(io.buflen) :
                    io' = [io EXCEPT !.result = o.ok, !.romsize = o.romsize,
                                     !.stdread = read, !.at = "release"]
    /\ UNCHANGED <<foreign, out>>
    /\ UNCHANGED <<vars, buildvars>>

\* the two release loops: CString::from_raw of every define's name and
\* contents and of every include path; then rom.length = romsize as usize
patch_ex_basic_release ==
    /\ io.fn \in {"patch_ex", "apply"} /\ io.at = "release"
    /\ foreign' = [foreign EXCEPT !.name = @ - io.options.defines,
                                   !.contents = @ - io.options.defines,
                                   !.includepath = @ - io.options.includepaths]
    /\ io' = [io EXCEPT !.rom.length = ToUsize(io.romsize), !.at = "finish"]
    /\ UNCHANGED out
    /\ UNCHANGED <<vars, buildvars>>

\* patch_ex: Success(romdata, warnings) or Failure(errors)
patch_ex_finish ==
    /\ io.fn = "patch_ex" /\ io.at = "finish"
    /\ io' = [io EXCEPT !.at = "returned"]
    /\ out' = IF io.result THEN Out("Success", TRUE, io.rom)
                           ELSE Out("Failure", FALSE, RomData(0, 0))
    /\ UNCHANGED foreign
    /\ UNCHANGED <<vars, buildvars>>

\* Patcher::apply: Ok(ApplyResult { romdata, success: result, .. })
apply_finish ==
    /\ io.fn = "apply" /\ io.at = "finish"
    /\ io' = [io EXCEPT !.at = "returned"]
    /\ out' = Out("ApplyResult", io.result, io.rom)
    /\ UNCHANGED foreign
    /\ UNCHANGED <<vars, buildvars>>

\* ApplyResult::romdata: std::mem::take(&mut self.romdata)
romdata_take ==
    /\ out.kind = "ApplyResult"
    /\ out' = Out("RomData", out.success, out.rom)
    /\ UNCHANGED <<io, foreign>>
    /\ UNCHANGED <<vars, buildvars>>

InitCall ==
    /\ APPLYRESULT_ONCE_ALIVE = FALSE
    /\ lock = global_asar_lock
    /\ engine = EngineEmpty
    /\ pc = [t \in Threads |-> "idle"]
    /\ arg = [t \in Threads |-> NoArg]
    /\ depth = [t \in Threads |-> 0]
    /\ ars = [t \in Threads |-> <<>>]
    /\ ret = [t \in Threads |-> NoRet]
    /\ patched = [t \in Threads |-> FALSE]
    /\ lastGateOp = "none"
    /\ \E cap \in Sizes, length \in Sizes :
         \/ io = NewCall("patch", RomData(cap, length), NoOptions)
         \/ \E fn \in {"patch_ex", "apply"} :
              \E d \in OptionCounts, i \in OptionCounts, w \in OptionCounts, m \in OptionCounts,
                 s \in StdFileCounts :
                 io = NewCall(fn, RomData(cap, length), AdvancedPatchOptions(d, i, w, m, s))
    /\ foreign = NoForeign
    /\ out = NoOut
    /\ builder = AdvancedPatchOptions_new
    /\ given = <<>>
    /\ patchers = [s \in Slots |-> NoPatcher]
    /\ applied = NoApplied

NextCall ==
    \/ patch_marshal \/ asar_patch \/ patch_finish
    \/ patch_ex_basic_marshal \/ asar_patch_ex \/ patch_ex_basic_release
    \/ patch_ex_finish \/ apply_finish \/ romdata_take

SpecCall == InitCall /\ [][NextCall]_<<vars, callvars, buildvars>>

\* ----------------------------------------- AdvancedPatchOptions, step by step
\* let b = AdvancedPatchOptions::new()
Builder_new ==
    /\ given # <<>>
    /\ builder' = AdvancedPatchOptions_new
    /\ given' = <<>>
    /\ UNCHANGED <<vars, callvars, patchers, applied>>

\* let b = AdvancedPatchOptions::from(list), in place of new()
Builder_from ==
    /\ given = <<>>
    /\ \E list \in Lists(PatchOptions, MaxList) :
         /\ builder' = AdvancedPatchOptions_from(list)
         /\ given' = list
    /\ UNCHANGED <<vars, callvars, patchers, applied>>

\* let b = b.option(o)
Builder_option ==
    /\ Len(given) < MaxList
    /\ \E o \in PatchOptions :
         /\ builder' = AdvancedPatchOptions_option(builder, o)
         /\ given' = Append(given, o)
    /\ UNCHANGED <<vars, callvars, patchers, applied>>

\* let b = b.options(list)
Builder_options ==
    /\ \E list \in Lists(PatchOptions, MaxList - Len(given)) :
         /\ builder' = AdvancedPatchOptions_options(builder, list)
         /\ given' = given \o list
    /\ UNCHANGED <<vars, callvars, patchers, applied>>

NextOptions == Builder_new \/ Builder_from \/ Builder_option \/ Builder_options

SpecOptions == Init /\ [][NextOptions]_<<vars, callvars, buildvars>>

\* ------------------------------------------------------ Patcher, step by step
\* the PatchOptions a caller gives to a Patcher: one variant that appends
\* and one that overwrites
PatcherInputs == {o \in PatchOptions : o.kind \in {"Include", "ShouldReset"}}
\* the lists a caller builds an AdvancedPatchOptions from for Patcher::options
\* (short enough for an option() to follow)
PatcherLists == Lists(PatcherInputs, MaxSet - 1)
\* let mut p = Patcher::new():  Self { options: None }
Patcher_new(s) ==
    /\ ~patchers[s].exists
    /\ patchers' = [patchers EXCEPT ![s] = Patcher(NoneOptions, <<>>)]
    /\ applied' = NoApplied
    /\ UNCHANGED <<vars, callvars, builder, given>>

\* mutant: option() starts again from the defaults
Patcher_option_from_defaults(s) ==
    /\ patchers[s].exists /\ Len(patchers[s].set) < MaxSet
    /\ \E o \in PatcherInputs :
         patchers' = [patchers EXCEPT ![s] =
            Patcher(Some(AdvancedPatchOptions_option(AdvancedPatchOptions_new, o)),
                    Append(patchers[s].set, o))]
    /\ applied' = NoApplied
    /\ UNCHANGED <<vars, callvars, builder, given>>

\* p.option(o):  self.options = Some(self.options.take().unwrap_or_default().option(option))
Patcher_option(s) ==
    /\ patchers[s].exists /\ Len(patchers[s].set) < MaxSet
    /\ \E o \in PatcherInputs :
         patchers' = [patchers EXCEPT ![s] =
            Patcher(Some(AdvancedPatchOptions_option(unwrap_or_default(patchers[s].options), o)),
                    Append(patchers[s].set, o))]
    /\ applied' = NoApplied
    /\ UNCHANGED <<vars, callvars, builder, given>>

\* p.options(AdvancedPatchOptions::from(list)):  self.options = Some(options)
Patcher_options(s) ==
    /\ patchers[s].exists
    /\ \E list \in PatcherLists :
         patchers' = [patchers EXCEPT ![s] = Patcher(Some(AdvancedPatchOptions_from(list)), list)]
    /\ applied' = NoApplied
    /\ UNCHANGED <<vars, callvars, builder, given>>

\* let q = p.clone()  (#[derive(Clone)])
Patcher_clone(s, d) ==
    /\ patchers[s].exists /\ ~patchers[d].exists
    /\ patchers' = [patchers EXCEPT ![d] = patchers[s]]
    /\ applied' = NoApplied
    /\ UNCHANGED <<vars, callvars, builder, given>>

\* p.apply(rom, patch): self is moved into the call, which hands
\* self.options.unwrap_or_default() to patch_ex_basic
Patcher_apply(s) ==
    /\ patchers[s].exists
    /\ applied' = [by |-> s, options |-> unwrap_or_default(patchers[s].options),
                   set |-> patchers[s].set]
    /\ patchers' = [patchers EXCEPT ![s] = NoPatcher]
    /\ UNCHANGED <<vars, callvars, builder, given>>

PatcherStep(s) ==
    \/ Patcher_new(s)
    \/ Patcher_option(s)
    \/ Patcher_options(s)
    \/ \E d \in Slots : Patcher_clone(s, d)
    \/ Patcher_apply(s)

NextPatcher == \E s \in Slots : PatcherStep(s)

SpecPatcher == Init /\ [][NextPatcher]_<<vars, callvars, buildvars>>

\* ----------------------------------------------------------------- claims
\* the step in which thread t's apply performs its compare_exchange
GateStep(t) == pc[t] = "apply_cas" /\ pc'[t] # "apply_cas"

\* C1: an apply whose compare_exchange runs while an ApplyResult is alive (on
\* this or any other thread) returns Err(ConcurrentApplyError) in that very
\* step: the step is enabled whoever holds the lock, and the call never
\* reaches the wait for the global lock.
C1_ApplyWhileAliveIsRejected ==
    [][\A t \in Threads :
         /\ (pc[t] = "apply_cas" /\ AnyAlive) => ENABLED apply_CAS(t)
         /\ (GateStep(t) /\ AnyAlive) =>
               (pc'[t] = "idle" /\ ret'[t].op = "apply" /\ ret'[t].res = "Err")]_vars

\* another thread owns the alive ApplyResult (and with it the lock) and this
\* thread's apply has returned the error
C1_Witness ==
    \E t, u \in Threads :
        t # u /\ Len(ars[u]) > 0 /\ lock.owner = u /\ ret[t].op = "apply" /\ ret[t].res = "Err"

\* C2: once romdata() has consumed an ApplyResult, the next apply to reach the
\* gate (no other apply in between) finds it available: it is not rejected
\* and goes on to take the lock and patch.
C2_ApplyAfterRomdataPasses ==
    [][\A t \in Threads :
         (GateStep(t) /\ lastGateOp = "romdata") =>
             (~APPLYRESULT_ONCE_ALIVE /\ pc'[t] = "apply_lock" /\ ret'[t].res # "Err")]_vars

\* an apply that followed a romdata() has returned Ok and its ApplyResult is alive
C2_Witness == \E t \in Threads : \E i \in 1..Len(ars[t]) : ars[t][i].after = "romdata"

\* C3 (as claimed): once an ApplyResult has been dropped without romdata(),
\* the next apply to reach the gate (no other apply in between) is not rejected.
C3_ApplyAfterDropPasses ==
    [][\A t \in Threads :
         (GateStep(t) /\ lastGateOp = "drop") =>
             (pc'[t] = "apply_lock" /\ ret'[t].res # "Err")]_vars

\* C4: at most one ApplyResult is alive in the whole process.
C4_AtMostOneAlive == AliveCount <= 1

\* one thread owns the alive ApplyResult while another is calling apply
C4_Witness ==
    \E t, u \in Threads : t # u /\ Len(ars[t]) = 1 /\ pc[u] = "apply_cas"

\* C5 (as claimed, counting an apply that has passed the gate and not yet
\* returned as alive): apply is rejected exactly when an ApplyResult is alive.
C5_RejectedIffAlive ==
    [][\A t \in Threads :
         GateStep(t) =>
             ((ret'[t].res = "Err") <=>
                 (AnyAlive \/ \E u \in Threads \ {t} : ApplyInProgress(u)))]_vars

\* C6: an apply rejected at the gate returns the error value and changes
\* nothing: no engine call is entered, the engine state, the gate, the lock
\* and the alive ApplyResult are as they were.
C6_RejectedApplyChangesNothing ==
    [][\A t \in Threads :
         (GateStep(t) /\ APPLYRESULT_ONCE_ALIVE) =>
             /\ ret'[t].res = "Err" /\ pc'[t] = "idle"
             /\ engine' = engine /\ APPLYRESULT_ONCE_ALIVE' = APPLYRESULT_ONCE_ALIVE
             /\ lock' = lock /\ ars' = ars /\ depth' = depth
             /\ \A u \in Threads : InEngine(u)' = InEngine(u)]_vars

\* the owner of an alive ApplyResult had its second apply rejected, and the
\* engine still holds the state the first apply left
C6_Witness ==
    \E t \in Threads :
        /\ ret[t].op = "apply" /\ ret[t].res = "Err"
        /\ Len(ars[t]) = 1 /\ engine = ars[t][1].state /\ APPLYRESULT_ONCE_ALIVE

\* C7: no two threads are inside an engine call of the patching module at once.
C7_PatchingEngineCallsExclusive ==
    \A t, u \in Threads : t # u => ~(InPatchingEngine(t) /\ InPatchingEngine(u))

\* one thread is inside a patching engine call while another waits for the lock
C7_Witness ==
    \E t, u \in Threads : t # u /\ InPatchingEngine(t) /\ pc[u] \in LockPcs

\* C8 (as claimed): whoever is inside an engine call holds the global lock.
C8_EngineCallsUnderLock == \A t \in Threads : InEngine(t) => lock.owner = t

\* C9: a thread that already holds the lock and reaches a lock acquisition
\* (of a patching function, an accessor, with_asar_lock or the drop-time
\* reset) can take it: its next step is enabled.
C9_NestedAcquireNeverBlocks ==
    \A t \in Threads : (pc[t] \in LockPcs /\ lock.owner = t) => ENABLED Step(t)

\* inside a with_asar_lock scope the owner of an ApplyResult drops it and the
\* drop-time reset is about to take the lock a third time
C9_Witness ==
    \E t \in Threads :
        pc[t] = "reset_lock" /\ arg[t].op = "drop" /\ depth[t] > 0 /\ lock = [owner |-> t, count |-> 2]

\* C10 (as claimed): after a thread has patched inside its with_asar_lock
\* scope, no other thread is inside an engine call while the scope is open,
\* and every query made in the scope returns the state that patch produced.
C10_ScopeIsolatesPatchAndQueries ==
    \A t \in Threads :
        patched[t] =>
            /\ \A u \in Threads \ {t} : ~InEngine(u)
            /\ (ret[t].op = "query" => (ret[t].val.by = t /\ ret[t].val = engine))

\* C11: while an ApplyResult is alive and its owner has made no raw patch /
\* patch_ex / reset call, every accessor call returns the engine state that
\* ApplyResult's own apply left; and while it is alive the engine state is
\* changed by no step other than a raw patch / patch_ex / reset of its owner.
C11_AccessorsReturnOwnApplyState ==
    [][\A t \in Threads :
         /\ (/\ pc[t] = "query_engine" /\ pc'[t] = "idle" /\ arg[t].op = "accessor"
             /\ Len(ars[t]) > 0 /\ ~ars[t][1].raw) => ret'[t].val = ars[t][1].state
         /\ (Len(ars[t]) > 0 /\ engine' # engine) =>
               (pc'[t] # pc[t] /\ arg[t].op \in {"patch", "patch_ex", "reset"})]_vars

\* an accessor has returned to the owner of the alive ApplyResult while another
\* thread is waiting for the lock in a raw patch, patch_ex or reset
C11_Witness ==
    \E t, u \in Threads :
        /\ t # u /\ Len(ars[t]) = 1 /\ ~ars[t][1].raw
        /\ ret[t].op = "accessor" /\ ret[t].val = ars[t][1].state
        /\ pc[u] \in {"patch_lock", "pex_lock", "reset_lock"}

\* C12 (as claimed): once patch_ex_basic has returned, no foreign buffer it
\* made for the call is left allocated, whatever the options and the outcome.
C12_MarshallingLeakFree ==
    (io.fn \in {"patch_ex", "apply"} /\ io.at \in {"finish", "returned"}) => foreign = NoForeign

\* C13 (as claimed): the RomData that romdata() hands back after a failed
\* apply has the length of the RomData that was supplied.
C13_FailureKeepsRomLength ==
    (out.kind = "RomData" /\ ~out.success) => out.rom.length = io.supplied.length

\* C14: the RomData of a successful patch, patch_ex or apply (and the one
\* romdata() then hands back) has a length no larger than the data vector that
\* was supplied; a call in which the engine reports a larger length is a failure.
C14_SuccessLengthFitsBuffer ==
    /\ out.success => out.rom.length <= io.supplied.cap
    /\ (io.at \in {"finish", "release", "returned"} /\ ToUsize(io.romsize) > io.supplied.cap)
           => ~io.result

\* a successful apply grew the ROM to fill the supplied buffer exactly and
\* romdata() handed it back
C14_Witness ==
    /\ out.kind = "RomData" /\ out.success
    /\ out.rom.length = io.supplied.cap /\ io.supplied.length < io.supplied.cap

\* C15: every PatchResult::Failure returned by patch or patch_ex carries the
\* error list of a failed patch, which is not empty.
C15_FailureCarriesDiagnostics ==
    \A t \in Threads :
        (ret[t].op \in {"patch", "patch_ex"} /\ ret[t].res = "Failure") => HasErrors(ret[t].val)

\* a thread holds a Failure with its errors while another thread has since
\* reset the engine
C15_Witness ==
    \E t, u \in Threads :
        /\ t # u /\ ret[t].res = "Failure" /\ HasErrors(ret[t].val)
        /\ ret[u].op = "reset" /\ engine = EngineEmpty

C18_DiagnosticsAreOfThatCall ==
    \A t \in Threads :
        /\ pc[t] \in {"patch_read", "pex_read"} => (lock.owner = t /\ engine.by = t)
        /\ (ret[t].op \in {"patch", "patch_ex"} /\ ret[t].res \in {"Success", "Failure"}) =>
              ret[t].val = EngineAfterPatch(t, ret[t].res = "Success")

\* a thread holds the PatchResult of its patch_ex while the engine already
\* holds the state of another thread's later patch
C18_Witness ==
    \E t, u \in Threads :
        /\ t # u /\ ret[t].op = "patch_ex" /\ ret[t].res \in {"Success", "Failure"}
        /\ ret[t].val.by = t /\ engine.by = u

\* C19: while an apply is inside the engine's patch call, no ApplyResult is
\* alive and no disposal of an earlier one is still on its way to, or inside,
\* its engine reset.
C19_SessionsDoNotOverlap ==
    \A u \in Threads :
        (pc[u] = "peb_engine" /\ arg[u].op = "apply") =>
            /\ AliveCount = 0
            /\ \A t \in Threads :
                  ~(arg[t].op \in {"romdata", "drop"} /\ pc[t] \in {"reset_lock", "reset_engine"})

\* a second apply has passed the gate that romdata() reopened and waits for
\* the lock, while the first ApplyResult's drop has not yet reset the engine
C19_Witness ==
    \E t, u \in Threads :
        /\ t # u /\ arg[t].op = "romdata" /\ pc[t] \in {"reset_lock", "reset_engine"}
        /\ arg[u].op = "apply" /\ pc[u] = "apply_lock"

\* C20: a query returns the engine's one shared state, as the most recent
\* patch or reset of any thread left it, and leaves it as it is.
C20_QueryReadsSharedRegister ==
    [][\A t \in Threads :
         (pc[t] = "query_engine" /\ pc'[t] = "idle") =>
             (ret'[t].val = engine /\ engine' = engine)]_vars

\* outside any with_asar_lock scope, thread t patched and then queried, and
\* the query returned the results of another thread's patch
C20_Witness ==
    \E t, u \in Threads :
        /\ t # u /\ depth[t] = 0
        /\ ret[t].op = "query" /\ ret[t].after = "patch" /\ ret[t].val.by = u

\* every lock holder gives the lock up again and again
HoldersLetGo == \A t \in Threads : []<>(lock.owner # t)
Waiting(t) == pc[t] \in LockPcs

\* C21: a thread inside a call that is not waiting for the global lock can
\* take its next step (the apply-gate included: it never waits); and if every
\* lock holder lets go of the lock in the end, every thread waiting for the
\* lock gets past that wait.
C21_NoDeadlock ==
    /\ [](\A t \in Threads : pc[t] \notin LockPcs \cup {"idle"} => ENABLED Step(t))
    /\ HoldersLetGo => \A t \in Threads : Waiting(t) ~> ~Waiting(t)

\* a thread waits for the lock while the other holds it through an alive
\* ApplyResult inside a with_asar_lock scope
C21_Witness ==
    \E t, u \in Threads :
        /\ t # u /\ Waiting(t) /\ lock.owner = u /\ Len(ars[u]) = 1 /\ depth[u] > 0
        /\ pc[u] = "idle"

\* C22: when asar_patch_ex is called, and until it has returned, every pointer
\* of the parameter block points into a buffer that is still allocated: the
\* buffers made by into_raw() for the defines, include paths, warning
\* settings and memory files, and the CStrings of the standard-includes and
\* standard-defines paths when these are set.  (The patch path and the ROM
\* are locals of patch_ex_basic that live to its end.)
C22_ParamsPointAtLiveBuffers ==
    io.at \in {"engine", "release"} =>
        /\ foreign.name = io.options.defines
        /\ foreign.contents = io.options.defines
        /\ foreign.includepath = io.options.includepaths
        /\ foreign.warnid = io.options.warning_settings
        /\ foreign.path = io.options.memory_files
        /\ io.std.ptr <= io.std.alloc

\* the step in which thread t's apply, past the gate, unwinds out of
\* patch_ex_basic (CString::new(..).unwrap() on a string with a NUL inside)
ApplyPanics(t) ==
    /\ pc[t] = "peb_lock" /\ arg[t].op = "apply"
    /\ pc'[t] = "idle" /\ ret'[t].res = "Panic"

\* C23 (as claimed): when an apply that has taken the apply-gate panics while
\* marshalling, and after it no ApplyResult is alive and no apply is in
\* progress, the apply-gate is available again.
C23_PanickedApplyFreesGate ==
    [][\A t \in Threads :
         (/\ ApplyPanics(t)
          /\ ~AnyAlive'
          /\ \A u \in Threads : ~ApplyInProgress(u)' /\ pc'[u] # "apply_cas")
            => ~APPLYRESULT_ONCE_ALIVE']_vars

\* option() folded over a list from new(), the last element applied last
RECURSIVE FoldOption(_)
FoldOption(list) ==
    IF list = <<>> THEN AdvancedPatchOptions_new
    ELSE AdvancedPatchOptions_option(FoldOption(SubSeq(list, 1, Len(list) - 1)), list[Len(list)])
\* the options of one variant in a list, in the list's order
OfKind(list, kind) == SelectSeq(list, LAMBDA o : o.kind = kind)
NamesOf(list, kind) == [i \in 1..Len(OfKind(list, kind)) |-> OfKind(list, kind)[i].name]
\* the string / the bool of the last option of a variant, or a default
LastName(list, kind, default) ==
    IF OfKind(list, kind) = <<>> THEN default ELSE OfKind(list, kind)[Len(OfKind(list, kind))].name
LastFlag(list, kind, default) ==
    IF OfKind(list, kind) = <<>> THEN default ELSE OfKind(list, kind)[Len(OfKind(list, kind))].flag
\* what the claim says an AdvancedPatchOptions given these options holds
Accumulated(list) ==
    [includepaths |-> NamesOf(list, "Include"),
     should_reset |-> LastFlag(list, "ShouldReset", TRUE),
     additional_defines |-> NamesOf(list, "Define"),
     stdincludesfile |-> LastName(list, "StdIncludesFile", None),
     stddefinesfile |-> LastName(list, "StdDefinesFile", None),
     warning_settings |->
        [i \in 1..Len(OfKind(list, "Warning")) |->
            [warnid |-> OfKind(list, "Warning")[i].name, enabled |-> OfKind(list, "Warning")[i].flag]],
     memory_files |-> NamesOf(list, "MemoryFile"),
     override_checksum_gen |-> LastFlag(list, "OverrideChecksumGen", FALSE),
     generate_checksum |-> LastFlag(list, "GenerateChecksum", FALSE)]

\* C24: whatever chain of new / from / option / options built it, an
\* AdvancedPatchOptions equals option() folded in order over all the
\* PatchOptions it was given, starting from new(); its four sequences hold
\* the Include, Define, Warning and MemoryFile options in the order given, and
\* its five single-valued fields hold the last value given, or the default of
\* new() (no standard files, should_reset true, both checksum flags false).
C24_AccumulatingBuilder ==
    /\ builder = FoldOption(given)
    /\ builder = Accumulated(given)

\* three options given: two include paths, the second before the first by
\* name, and a standard-includes file given after them
C24_Witness ==
    /\ Len(given) = MaxList
    /\ builder.includepaths = <<2, 1>>
    /\ builder.stdincludesfile = 1

\* C25: a Patcher stands for the options its history says: none after new(),
\* one more after each option(), exactly those of the AdvancedPatchOptions
\* given to options() after that call (whatever was set before is gone); its
\* effective options are those accumulated from the defaults of
\* AdvancedPatchOptions::new().  apply hands these to patch_ex_basic, the
\* defaults if nothing was set, and leaves every other Patcher as it is; a
\* clone has the options of its original, which it leaves as it is.
C25_PatcherOptions ==
    /\ [](\A s \in Slots :
            patchers[s].exists =>
                /\ unwrap_or_default(patchers[s].options) = Accumulated(patchers[s].set)
                /\ patchers[s].set = <<>> =>
                      unwrap_or_default(patchers[s].options) = AdvancedPatchOptions_new)
    /\ [][\A s \in Slots :
            /\ Patcher_apply(s) =>
                  /\ applied'.options = Accumulated(patchers[s].set)
                  /\ \A d \in Slots \ {s} : patchers'[d] = patchers[d]
            /\ \A d \in Slots :
                  Patcher_clone(s, d) =>
                     /\ patchers'[d].options = patchers[s].options
                     /\ patchers'[s] = patchers[s]]_<<vars, callvars, buildvars>>

\* the original was applied with two options set, and its clone, made
\* before, still holds them
C25_Witness ==
    /\ applied.by = 1 /\ Len(applied.set) = MaxSet
    /\ patchers[2].exists /\ patchers[2].set = applied.set

\* C26 (as claimed): the RomData a caller constructs and supplies, and the
\* RomData handed back by patch, patch_ex and ApplyResult::romdata, has a
\* length no larger than its data vector; and the in/out length passed to the
\* engine is no larger than the buffer length passed with it.
C26_RomDataLengthWithinBuffer ==
    /\ io.fn # "none" => io.supplied.length <= io.supplied.cap
    /\ out.kind \in {"Success", "RomData"} => out.rom.length <= out.rom.cap
    /\ io.at = "engine" => io.romsize <= io.buflen

\* C27: the RomData of a successful patch, patch_ex or apply (and the one
\* romdata() then hands back) has the length the engine wrote through its
\* in/out length parameter, as a usize, whatever length was supplied, and a
\* data vector of the size that was supplied.
C27_SuccessLengthIsEngineLength ==
    out.success =>
        /\ out.rom.length = ToUsize(io.romsize)
        /\ out.rom.cap = io.supplied.cap

\* a patch of a ROM supplied with length 0 in a larger buffer succeeded with
\* a length between the two
C27_Witness ==
    /\ out.kind = "Success" /\ io.supplied.length = 0
    /\ 0 < out.rom.length /\ out.rom.length < out.rom.cap
    /\ out.rom.length = io.romsize

\* C28: in the build without `thread-safe`, run on one thread, the lock is
\* never held and no lock() waits (with_asar_lock and every locked function go
\* straight on); yet an apply whose compare_exchange runs while an
\* ApplyResult is alive returns Err(ConcurrentApplyError), and the apply that
\* follows a romdata() passes the gate and goes on to patch.
C28_GateWithoutLock ==
    /\ [](lock = global_asar_lock)
    /\ [](pc[MainThread] \in LockPcs => ENABLED FakeLock_Step(MainThread))
    /\ [][(GateStep(MainThread) /\ AnyAlive) =>
            (pc'[MainThread] = "idle" /\ ret'[MainThread].op = "apply"
                /\ ret'[MainThread].res = "Err")]_vars
    /\ [][(GateStep(MainThread) /\ lastGateOp = "romdata") =>
            (~APPLYRESULT_ONCE_ALIVE /\ pc'[MainThread] = "peb_lock"
                /\ ret'[MainThread].res # "Err")]_vars

\* an apply has just been refused while the ApplyResult of an apply that
\* followed a romdata() is alive, inside a with_asar_lock scope
C28_Witness ==
    /\ ret[MainThread].op = "apply" /\ ret[MainThread].res = "Err"
    /\ Len(ars[MainThread]) = 1 /\ ars[MainThread][1].after = "romdata"
    /\ depth[MainThread] > 0
====
